---- MODULE Spec2Model ----
(***************************************************************************)
(* Model of the board-metrics tool: the serde payload codec of             *)
(* block_payload.rs and the session orchestrated by main() in main.rs.     *)
(*                                                                         *)
(* Rust values are modelled as follows.  A String is a TLA+ string, a      *)
(* float is an integer number of hundredths, Option<String> is None or     *)
(* Some(s), Vec<String> is a sequence, a struct is a record over its       *)
(* snake_case field names, and a BlockData is [variant, data], the data of *)
(* the tuple variant BasicBlockData being a 1-tuple.  A JSON               *)
(* value is a string, a number, null, an array of strings or an object,    *)
(* which is a function from its keys to JSON values.                       *)
(***************************************************************************)
EXTENDS Integers, Sequences, FiniteSets, TLC

\* ------------------------------------------------------------- bounds
\* Largest sampling budget, in clock ticks (the source fixes one budget).
MaxBudget == 3
\* Longest duration of one post attempt, in clock ticks.
MaxStep == 1
\* Number of distinct outcomes of the random source, rng.gen::<f64>().
RandDen == 1

\* The sampler run alone draws its random number from k / SampleDen,
\* 0 <= k < SampleDen.
SampleDen == 4

\* Its bounds are multiples of 1 / u of a hundredth, for u in 1..SampleUnit.
SampleUnit == 4

\* The bounds drawn lie within MaxBound such parts of zero.
MaxBound == 4

\* ---------------------------------------------------- program constants
\* main.rs:61, the length every accepted identifier has.
BlockIdLen == 66

Range(s) == {s[i] : i \in 1..Len(s)}

Min(S) == CHOOSE m \in S : \A n \in S : m <= n

\* ------------------------------------------------------- Rust values
None == [some |-> FALSE]

Some(s) == [some |-> TRUE, val |-> s]

Ok(v) == [ok |-> TRUE, val |-> v]

Err(e) == [ok |-> FALSE, err |-> e]

\* ------------------------------------------------------- JSON values
\* A JSON value is a record of one field, named after the kind of the
\* value, that holds its content.
JStr(s) == [str |-> s]

JNum(n) == [num |-> n]

JNull == [null |-> TRUE]

JArr(q) == [arr |-> q]

JObj(f) == [obj |-> f]

JType(j) == CHOOSE t \in DOMAIN j : TRUE

JVal(j) == j[JType(j)]

\* ------------------------------------------ block_payload.rs: the types
\* The fields of each struct, in declaration order, as <<name, type>>.
Fields(ty) ==
    CASE ty = "BlockPayload" ->
           << <<"tag", "String">>, <<"data", "BlockData">> >>
      [] ty = "TaggedDataPayload" ->
           << <<"block_type", "String">>, <<"data", "BlockData">> >>
      [] ty = "PaymentInfo" ->
           << <<"wallet_address", "String">>, <<"smr_cost", "f64">> >>
      [] ty = "Resource" ->
           << <<"previous_block", "String">>,
              <<"transaction_receipt", "String">> >>
      [] ty = "Resources" ->
           << <<"previous_blocks", "Vec<String>">>,
              <<"transaction_receipts", "Vec<String>">> >>
      [] ty = "ProductInfo" ->
           << <<"info", "String">>, <<"file_cid", "Option<String>">> >>
      [] ty = "ExportLocation" ->
           << <<"longitude", "f32">>, <<"latitude", "f32">> >>
      [] ty = "RawMaterialsProducerBlockData" ->
           << <<"provider_info", "String">>,
              <<"material_info", "ProductInfo">>,
              <<"export_timestamp", "String">>,
              <<"export_location", "ExportLocation">>,
              <<"payment_info", "PaymentInfo">> >>
      [] ty = "SupplierBlockData" ->
           << <<"supplier_info", "String">>,
              <<"processed_material_info", "ProductInfo">>,
              <<"resources", "Resources">>,
              <<"payment_info", "PaymentInfo">> >>
      [] ty = "ManufacturerBlockData" ->
           << <<"manufacturer_info", "String">>,
              <<"product_info", "ProductInfo">>,
              <<"resources", "Resources">>,
              <<"payment_info", "PaymentInfo">> >>
      [] ty = "DistributorBlockData" ->
           << <<"distributor_info", "String">>,
              <<"product_distribution_info", "ProductInfo">>,
              <<"resource", "Resource">>,
              <<"payment_info", "PaymentInfo">> >>
      [] ty = "RetailerBlockData" ->
           << <<"retailer_info", "String">>,
              <<"product_retail_info", "ProductInfo">>,
              <<"payment_info", "PaymentInfo">>,
              <<"resource", "Resource">> >>
      [] ty = "ConsumerBlockData" ->
           << <<"consumer_info", "String">>, <<"resource", "Resource">> >>
      [] ty = "StartTransportationData" ->
           << <<"transportation_company_info", "String">>,
              <<"transportation_info", "ProductInfo">>,
              <<"start_timestamp", "String">>,
              <<"previous_block", "String">> >>
      [] ty = "DeliveredTransportationData" ->
           << <<"product_delivery_info", "ProductInfo">>,
              <<"delivery_timestamp", "String">>,
              <<"payment_info", "PaymentInfo">>,
              <<"metrics", "Vec<String>">> >>
      [] ty = "MetricData" ->
           << <<"metric_type", "String">>,
              <<"metric_value", "f64">>,
              <<"measurement_unit", "String">>,
              <<"timestamp", "String">>,
              <<"previous_block", "String">> >>

\* The variants of the untagged enum BlockData, in declaration order.  Every
\* variant but the first wraps the struct of the same name.
Variants ==
    << "BasicBlockData", "RawMaterialsProducerBlockData", "SupplierBlockData",
       "ManufacturerBlockData", "DistributorBlockData", "RetailerBlockData",
       "ConsumerBlockData", "StartTransportationData",
       "DeliveredTransportationData", "MetricData" >>

\* The type a variant of BlockData wraps.
VariantType(variant) ==
    IF variant = "BasicBlockData" THEN "String" ELSE variant

\* The rename_all attribute is missing: a field keeps its name on the wire.
SnakeCase(name) == name

\* #[serde(rename_all = "camelCase")]: the key a field has on the wire.
CamelCase(name) ==
    CASE name = "tag" -> "tag"
      [] name = "data" -> "data"
      [] name = "block_type" -> "blockType"
      [] name = "wallet_address" -> "walletAddress"
      [] name = "smr_cost" -> "smrCost"
      [] name = "previous_block" -> "previousBlock"
      [] name = "transaction_receipt" -> "transactionReceipt"
      [] name = "previous_blocks" -> "previousBlocks"
      [] name = "transaction_receipts" -> "transactionReceipts"
      [] name = "info" -> "info"
      [] name = "file_cid" -> "fileCid"
      [] name = "longitude" -> "longitude"
      [] name = "latitude" -> "latitude"
      [] name = "provider_info" -> "providerInfo"
      [] name = "material_info" -> "materialInfo"
      [] name = "export_timestamp" -> "exportTimestamp"
      [] name = "export_location" -> "exportLocation"
      [] name = "payment_info" -> "paymentInfo"
      [] name = "supplier_info" -> "supplierInfo"
      [] name = "processed_material_info" -> "processedMaterialInfo"
      [] name = "resources" -> "resources"
      [] name = "manufacturer_info" -> "manufacturerInfo"
      [] name = "product_info" -> "productInfo"
      [] name = "distributor_info" -> "distributorInfo"
      [] name = "product_distribution_info" -> "productDistributionInfo"
      [] name = "resource" -> "resource"
      [] name = "retailer_info" -> "retailerInfo"
      [] name = "product_retail_info" -> "productRetailInfo"
      [] name = "consumer_info" -> "consumerInfo"
      [] name = "transportation_company_info" -> "transportationCompanyInfo"
      [] name = "transportation_info" -> "transportationInfo"
      [] name = "start_timestamp" -> "startTimestamp"
      [] name = "product_delivery_info" -> "productDeliveryInfo"
      [] name = "delivery_timestamp" -> "deliveryTimestamp"
      [] name = "metrics" -> "metrics"
      [] name = "metric_type" -> "metricType"
      [] name = "metric_value" -> "metricValue"
      [] name = "measurement_unit" -> "measurementUnit"
      [] name = "timestamp" -> "timestamp"

\* ------------------------------- block_payload.rs: derive(Serialize)
RECURSIVE Serialize(_, _)
\* The JSON value the derived Serialize of type ty writes for val.  An
\* untagged enum writes its content bare; None is written as null.
Serialize(ty, val) ==
    CASE ty = "String" -> JStr(val)
      [] ty \in {"f64", "f32"} -> JNum(val)
      [] ty = "Option<String>" -> IF val.some THEN JStr(val.val) ELSE JNull
      [] ty = "Vec<String>" -> JArr(val)
      [] ty = "BlockData" ->
           IF val.variant = "BasicBlockData" THEN Serialize("String", val.data[1])
           ELSE Serialize(VariantType(val.variant), val.data)
      [] OTHER ->
           LET fs == Range(Fields(ty))
               FieldOf(k) == CHOOSE f \in fs : CamelCase(f[1]) = k
           IN  JObj([k \in {CamelCase(f[1]) : f \in fs} |->
                       Serialize(FieldOf(k)[2], val[FieldOf(k)[1]])])

\* ----------------------------- block_payload.rs: derive(Deserialize)
\* No field may be absent.
IsOptionalNever(ty) == FALSE

\* A field of an Option type may be absent from the object read.
IsOptional(ty) == ty = "Option<String>"

RECURSIVE Deserialize(_, _)
\* The result of the derived Deserialize of type ty on the JSON value j.
\* A struct needs every field that is not an Option, ignores unknown keys
\* and fails on a field of the wrong type.  The untagged enum BlockData
\* tries its variants in declaration order and keeps the first that
\* deserializes.
Deserialize(ty, j) ==
    CASE ty = "String" ->
           IF JType(j) = "str" THEN Ok(JVal(j)) ELSE Err("invalid type")
      [] ty \in {"f64", "f32"} ->
           IF JType(j) = "num" THEN Ok(JVal(j)) ELSE Err("invalid type")
      [] ty = "Option<String>" ->
           IF JType(j) = "null" THEN Ok(None)
           ELSE IF JType(j) = "str" THEN Ok(Some(JVal(j))) ELSE Err("invalid type")
      [] ty = "Vec<String>" ->
           IF JType(j) = "arr" THEN Ok(JVal(j)) ELSE Err("invalid type")
      [] ty = "BlockData" ->
           LET Try(i) == Deserialize(VariantType(Variants[i]), j)
               hits == {i \in 1..Len(Variants) : Try(i).ok}
           IN  IF hits = {}
               THEN Err("data did not match any variant of untagged enum BlockData")
               ELSE Ok([variant |-> Variants[Min(hits)],
                        data |-> IF Variants[Min(hits)] = "BasicBlockData"
                                 THEN <<Try(Min(hits)).val>>
                                 ELSE Try(Min(hits)).val])
      [] OTHER ->
           LET fs == Range(Fields(ty))
               Present(f) == CamelCase(f[1]) \in DOMAIN JVal(j)
               Sub(f) == Deserialize(f[2], JVal(j)[CamelCase(f[1])])
               Good(f) == IF Present(f) THEN Sub(f).ok
                          ELSE IsOptional(f[2])
               FieldOf(n) == CHOOSE f \in fs : f[1] = n
           IN  IF JType(j) # "obj" THEN Err("invalid type")
               ELSE IF \E f \in fs : ~Good(f)
               THEN Err("missing field or invalid type")
               ELSE Ok([n \in {f[1] : f \in fs} |->
                          IF Present(FieldOf(n)) THEN Sub(FieldOf(n)).val
                          ELSE None])

\* ------------------------------------------------ text and byte buffers
\* A String holding the JSON text of j is [json |-> TRUE, val |-> j]; any
\* other String is [json |-> FALSE, chars |-> s].  A byte buffer is the
\* UTF-8 encoding of a String, or bytes that are no UTF-8 at all.
Text(s) == [json |-> FALSE, chars |-> s]

NotJson == Text("not json")

InvalidUtf8 == [utf8 |-> FALSE]

\* serde_json::to_string(&val) for a val of type ty.
ToJsonString(ty, val) == [json |-> TRUE, val |-> Serialize(ty, val)]

\* String::as_bytes().to_vec()
AsBytes(text) == [utf8 |-> TRUE, text |-> text]

\* String::from_utf8(bytes)
FromUtf8(bytes) ==
    IF bytes.utf8 THEN Ok(bytes.text) ELSE Err("FromUtf8Error")

\* serde_json::from_str::<ty>(text)
FromJsonStr(ty, text) ==
    IF ~text.json THEN Err("SerdeError")
    ELSE IF Deserialize(ty, text.val).ok THEN Deserialize(ty, text.val)
    ELSE Err("SerdeError")

\* main.rs:116-118, the decoding of a tagged-data body.
DecodeTaggedData(bytes) ==
    IF ~FromUtf8(bytes).ok THEN FromUtf8(bytes)
    ELSE FromJsonStr("TaggedDataPayload", FromUtf8(bytes).val)

\* ------------------------------------------------------------ BlockDto
\* A fetched block: its payload is absent, or of one of the kinds of
\* PayloadDto; a tagged-data payload carries the body bytes.
PayloadKinds == {"Transaction", "Milestone", "TreasuryTransaction", "TaggedData"}

NoPayload == [payload |-> "None", data |-> InvalidUtf8]

OtherPayload(kind) == [payload |-> kind, data |-> InvalidUtf8]

TaggedData(bytes) == [payload |-> "TaggedData", data |-> bytes]

\* Every variant that has a payment_info field is accepted.
PaymentInfoOfAnyCarrier(block_data) ==
    IF block_data.variant \in
         {"RawMaterialsProducerBlockData", "SupplierBlockData",
          "ManufacturerBlockData", "DistributorBlockData", "RetailerBlockData",
          "DeliveredTransportationData"}
    THEN Ok(block_data.data.payment_info)
    ELSE Err("Anyhow: Block payload does not contain payment info data")

\* main.rs:120-129, the match on the decoded BlockData.
PaymentInfoOf(block_data) ==
    IF block_data.variant \in
         {"RawMaterialsProducerBlockData", "SupplierBlockData",
          "ManufacturerBlockData", "DistributorBlockData", "RetailerBlockData"}
    THEN Ok(block_data.data.payment_info)
    ELSE Err("Anyhow: Block payload does not contain payment info data")

\* The body is decoded before the payload is looked at.
ExtractPaymentInfoDecodeFirst(block) ==
    IF ~DecodeTaggedData(block.data).ok THEN DecodeTaggedData(block.data)
    ELSE IF block.payload = "None" THEN Err("Anyhow: Block has no payload")
    ELSE IF block.payload # "TaggedData"
    THEN Err("Anyhow: Block payload is not tagged data")
    ELSE PaymentInfoOf(DecodeTaggedData(block.data).val.data)

\* main.rs:99-132
ExtractPaymentInfo(block) ==
    IF block.payload = "None" THEN Err("Anyhow: Block has no payload")
    ELSE IF block.payload # "TaggedData"
    THEN Err("Anyhow: Block payload is not tagged data")
    ELSE IF ~DecodeTaggedData(block.data).ok THEN DecodeTaggedData(block.data)
    ELSE PaymentInfoOf(DecodeTaggedData(block.data).val.data)

\* ------------------------------------------------------- identifiers
\* The text of a root identifier is modelled by its shape: whether it
\* starts with "0x", how many characters follow the prefix, whether they
\* are all hexadecimal digits, and whether a line feed ends the text.
IdText(prefix, digits, hex, nl) ==
    [prefix |-> prefix, digits |-> digits, hex |-> hex, nl |-> nl]

\* str::len()
StrLen(s) ==
    (IF s.prefix THEN 2 ELSE 0) + s.digits + (IF s.nl THEN 1 ELSE 0)

\* str::starts_with("0x")
StartsWith0x(s) == s.prefix

\* The text as a string value of a payload field.
ShowId(s) ==
    (IF s.prefix THEN "0x" ELSE "") \o ToString(s.digits)
      \o (IF s.hex THEN " hex digits" ELSE " characters")
      \o (IF s.nl THEN " LF" ELSE "")

\* main.rs:85, BlockId::from_str: "0x" and 64 hexadecimal digits, no more.
ParseBlockId(s) ==
    IF s.prefix /\ s.hex /\ ~s.nl /\ s.digits = BlockIdLen - 2
    THEN Ok(s) ELSE Err("IotaBlockError")

\* BlockId::to_string() of a posted block; posted blocks are numbered in the
\* order the ledger accepted them.
BlockIdToString(id) == "0x" \o ToString(id)

\* -------------------------------------------------------- environment
\* main.rs:29-40.  The environment, after .env is loaded, is a function from
\* the names of the variables that are set to their values.
ReadEnvVar(e, var) ==
    IF var \in DOMAIN e THEN Ok(e[var]) ELSE Err("EnvError")

\* io::stdin().read_line(): the line typed, with its line feed unless the
\* input ended without one, or an I/O error.
ReadLine(in) ==
    IF ~in.readable THEN Err("Io")
    ELSE Ok([in.typed EXCEPT !.nl = ~in.eof])

\* main.rs:57-67, the checks on the text obtained.
CheckBlockId(input) ==
    IF ~StartsWith0x(input)
    THEN Err("Anyhow: BlockId must start with 0x")
    ELSE IF StrLen(input) # BlockIdLen
    THEN Err("Anyhow: BlockId must be 66 characters long")
    ELSE Ok(input)

\* main.rs:44-68
BlockIdInput(e, in) ==
    IF ReadEnvVar(e, "INITIAL_BLOCK_ID").ok
    THEN CheckBlockId(ReadEnvVar(e, "INITIAL_BLOCK_ID").val)
    ELSE IF ~ReadLine(in).ok THEN ReadLine(in)
    ELSE CheckBlockId(ReadLine(in).val)

\* ------------------------------------------------------------ posting
\* main.rs:193-198
PrintBlockOnExplorer(e, block_id) ==
    IF ReadEnvVar(e, "EXPLORER_URL").ok THEN Ok(block_id)
    ELSE ReadEnvVar(e, "EXPLORER_URL")

\* main.rs:134-158.  accepted: whether build_block and post_block both
\* succeed, so that the block is on the ledger.  Yields the result returned
\* to the caller and the ledger after the call.
PostIotaBlock(e, led, tag, data, accepted) ==
    LET id == Len(led) + 1
    IN  IF ~accepted
        THEN [result |-> Err("IotaClientError"), ledger |-> led]
        ELSE [result |-> IF PrintBlockOnExplorer(e, BlockIdToString(id)).ok
                         THEN Ok(id)
                         ELSE PrintBlockOnExplorer(e, BlockIdToString(id)),
              ledger |-> Append(led, [id |-> id, tag |-> tag, data |-> data])]

\* The file_cid of a record: the value of the variable when it is set.
FileCid(e, var) ==
    IF ReadEnvVar(e, var).ok THEN Some(ReadEnvVar(e, var).val) ELSE None

\* The record does not name the root record.
StartTransportationDataUnlinked(e, initial_block_id) ==
    [transportation_company_info |-> "Transportation Company Information Data",
     transportation_info |->
        [info |-> "Transportation Information Data",
         file_cid |-> FileCid(e, "START_TRANSPORTATION_CID")],
     start_timestamp |-> "now",
     previous_block |-> ""]

\* main.rs:165-180
StartTransportationData(e, initial_block_id) ==
    [transportation_company_info |-> "Transportation Company Information Data",
     transportation_info |->
        [info |-> "Transportation Information Data",
         file_cid |-> FileCid(e, "START_TRANSPORTATION_CID")],
     start_timestamp |-> "now",
     previous_block |-> ShowId(initial_block_id)]

\* main.rs:160-191
StartTransportation(e, led, initial_block_id, accepted) ==
    PostIotaBlock(e, led, AsBytes(Text("Start Transportation Tag")),
        AsBytes(ToJsonString("StartTransportationData",
                             StartTransportationData(e, initial_block_id))),
        accepted)

\* (number * 100.0).round(), for number * 100.0 = num / den: f64::round
\* rounds half-way cases away from zero.
RoundHalfAway(num, den) ==
    IF num >= 0 THEN (2 * num + den) \div (2 * den)
    ELSE -((2 * (-num) + den) \div (2 * den))

\* The lower bound is left out of the sum.
GenRandomNumberNoOffset(min, max, unit, k, den) ==
    RoundHalfAway((max - min) * k, den * unit)

\* main.rs:200-209, with min and max counted in parts of 1 / unit of a
\* hundredth and the random number drawn being k / den: number * 100.0 is
\* (min * den + (max - min) * k) / (den * unit), and the result is its
\* rounding, a whole number of hundredths.
GenRandomNumberScaled(min, max, unit, k, den) ==
    RoundHalfAway(min * den + (max - min) * k, den * unit)

\* main.rs:200-209 as main() calls it: the bounds are whole hundredths and
\* the random number drawn is k / RandDen.
GenRandomNumber(min, max, k) == GenRandomNumberScaled(min, max, 1, k, RandDen)

\* main.rs:215-221 and 238-244
MetricData(metric_type, value, unit, previous_block_id) ==
    [metric_type |-> metric_type,
     metric_value |-> value,
     measurement_unit |-> unit,
     timestamp |-> "now",
     previous_block |-> previous_block_id]

\* main.rs:211-232
TemperatureMetric(e, led, previous_block_id, k, accepted) ==
    PostIotaBlock(e, led, AsBytes(Text("Temperature Metric Tag")),
        AsBytes(ToJsonString("MetricData",
            MetricData("Temperature", GenRandomNumber(-500, 3000, k),
                       "Celsius", previous_block_id))),
        accepted)

\* The humidity record is linked to the latest record of the ledger,
\* whatever its sub-chain.
HumidityMetricOnLatest(e, led, previous_block_id, k, accepted) ==
    PostIotaBlock(e, led, AsBytes(Text("Humidity Metric Tag")),
        AsBytes(ToJsonString("MetricData",
            MetricData("Humidity", GenRandomNumber(0, 10000, k),
                       "%", BlockIdToString(Len(led))))),
        accepted)

\* main.rs:234-255
HumidityMetric(e, led, previous_block_id, k, accepted) ==
    PostIotaBlock(e, led, AsBytes(Text("Humidity Metric Tag")),
        AsBytes(ToJsonString("MetricData",
            MetricData("Humidity", GenRandomNumber(0, 10000, k),
                       "%", previous_block_id))),
        accepted)

\* The payment info passed in is dropped: an empty one is written instead.
DeliveredTransportationDataNoPayment(e, payment, metric_ids) ==
    [product_delivery_info |->
        [info |-> "Product Delivery Information",
         file_cid |-> FileCid(e, "DELIVER_TRANSPORTATION_CID")],
     delivery_timestamp |-> "now",
     payment_info |-> [wallet_address |-> "", smr_cost |-> 0],
     metrics |-> metric_ids]

\* main.rs:262-277
DeliveredTransportationData(e, payment, metric_ids) ==
    [product_delivery_info |->
        [info |-> "Product Delivery Information",
         file_cid |-> FileCid(e, "DELIVER_TRANSPORTATION_CID")],
     delivery_timestamp |-> "now",
     payment_info |-> payment,
     metrics |-> metric_ids]

\* main.rs:257-290
DeliverTransportation(e, led, payment, metric_ids, accepted) ==
    PostIotaBlock(e, led, AsBytes(Text("Delivered Transportation Tag")),
        AsBytes(ToJsonString("DeliveredTransportationData",
                             DeliveredTransportationData(e, payment, metric_ids))),
        accepted)

\* The pointer is never advanced: the assignment of the Ok arm is missing.
AdvancePointerNever(previous_block, result) == previous_block

\* The pointer is reset when the post failed.
AdvancePointerReset(previous_block, result) ==
    IF result.ok THEN result.val ELSE 0

\* main.rs:319-322 and 324-327: the chain pointer after a metric post.
AdvancePointer(previous_block, result) ==
    IF result.ok THEN result.val ELSE previous_block

\* The loop stops at a failed post and waits there.
AfterMetricWait(result, next) == IF result.ok THEN next ELSE "waiting"

\* A failed post ends the iteration: the budget is tested next.
AfterMetricSkip(result, next) == IF result.ok THEN next ELSE "check_elapsed"

\* A failed post ends the loop: the delivery is next.
AfterMetricAbandon(result, next) ==
    IF result.ok THEN next ELSE "deliver_transportation"

\* The error of a failed metric post is unwrapped, as the other errors are.
AfterMetricFatal(result, next) == IF result.ok THEN next ELSE "failed"

\* main.rs:321 and 326: where the loop goes on after a metric post; the
\* error of a failed post is printed and dropped.
AfterMetric(result, next) == next

\* main.rs:329, the test that ends the loop.
BudgetSpent(time_elapsed, budget) == time_elapsed >= budget

\* The identifiers are pushed in the other order.
CapturedMetricsSwapped(temperature_tip, humidity_tip) ==
    <<BlockIdToString(humidity_tip), BlockIdToString(temperature_tip)>>

\* main.rs:330-331, the identifiers captured when the loop ends.
CapturedMetrics(temperature_tip, humidity_tip) ==
    <<BlockIdToString(temperature_tip), BlockIdToString(humidity_tip)>>

\* main.rs:72-82.  built: whether the client builder succeeds.
CreateIotaClient(e, built) ==
    IF ~ReadEnvVar(e, "NODE_URL").ok THEN ReadEnvVar(e, "NODE_URL")
    ELSE IF built THEN Ok("client") ELSE Err("IotaClientError")

\* main.rs:84-92.  fetched: what the node answers, a block or an error.
GetBlock(id_text, fetched) ==
    IF ~ParseBlockId(id_text).ok THEN ParseBlockId(id_text) ELSE fetched

\* ---------------------------------------------------- the inputs drawn
PaymentInfos ==
    { [wallet_address |-> "abc", smr_cost |-> 1250],
      [wallet_address |-> "def", smr_cost |-> 0] }

ProductInfos ==
    { [info |-> "info", file_cid |-> None],
      [info |-> "info", file_cid |-> Some("cid")] }

SampleResource == [previous_block |-> "0xp", transaction_receipt |-> "0xr"]

SampleResources ==
    [previous_blocks |-> <<"0xp", "0xq">>,
     transaction_receipts |-> <<"0xr", "0xs">>]

\* A value of each variant of BlockData.
SamplePayload(variant, payment, product) ==
    [variant |-> variant,
     data |->
       CASE variant = "BasicBlockData" -> <<"plain text">>
         [] variant = "RawMaterialsProducerBlockData" ->
              [provider_info |-> "provider", material_info |-> product,
               export_timestamp |-> "then",
               export_location |-> [longitude |-> 2372, latitude |-> 3798],
               payment_info |-> payment]
         [] variant = "SupplierBlockData" ->
              [supplier_info |-> "supplier",
               processed_material_info |-> product,
               resources |-> SampleResources, payment_info |-> payment]
         [] variant = "ManufacturerBlockData" ->
              [manufacturer_info |-> "manufacturer", product_info |-> product,
               resources |-> SampleResources, payment_info |-> payment]
         [] variant = "DistributorBlockData" ->
              [distributor_info |-> "distributor",
               product_distribution_info |-> product,
               resource |-> SampleResource, payment_info |-> payment]
         [] variant = "RetailerBlockData" ->
              [retailer_info |-> "retailer", product_retail_info |-> product,
               payment_info |-> payment, resource |-> SampleResource]
         [] variant = "ConsumerBlockData" ->
              [consumer_info |-> "consumer", resource |-> SampleResource]
         [] variant = "StartTransportationData" ->
              [transportation_company_info |-> "company",
               transportation_info |-> product,
               start_timestamp |-> "then", previous_block |-> "0xp"]
         [] variant = "DeliveredTransportationData" ->
              [product_delivery_info |-> product,
               delivery_timestamp |-> "then", payment_info |-> payment,
               metrics |-> <<"0xp", "0xq">>]
         [] variant = "MetricData" ->
              [metric_type |-> "Temperature", metric_value |-> 2150,
               measurement_unit |-> "Celsius", timestamp |-> "then",
               previous_block |-> "0xp"]]

SamplePayloads ==
    { SamplePayload(v, pay, prod) :
        v \in Range(Variants), pay \in PaymentInfos, prod \in ProductInfos }

Tags == {"tag one", "tag two"}

\* The body of a record written with the read-side envelope.
TaggedBody(block_type, payload) ==
    AsBytes(ToJsonString("TaggedDataPayload",
                         [block_type |-> block_type, data |-> payload]))

\* The body of a record written with the write-side envelope.
EnvelopeBody(tag, payload) ==
    AsBytes(ToJsonString("BlockPayload", [tag |-> tag, data |-> payload]))

\* The body of a record written as the orchestrator writes its own: the
\* payload alone.
BareBody(payload) == AsBytes(ToJsonString("BlockData", payload))

\* The body of a RawMaterialsProducer record in the read-side envelope, as
\* it is on the wire, with only the required keys; its paymentInfo holds
\* walletAddress "abc" and, under the key cost_key, 12.5.
ProducerBody(cost_key) ==
    AsBytes([json |-> TRUE,
             val |-> JObj(
               [blockType |-> JStr("Raw Materials Producer"),
                data |-> JObj(
                  [providerInfo |-> JStr("provider"),
                   materialInfo |-> JObj([info |-> JStr("info")]),
                   exportTimestamp |-> JStr("then"),
                   exportLocation |->
                      JObj([longitude |-> JNum(2372), latitude |-> JNum(3798)]),
                   paymentInfo |->
                      JObj([k \in {"walletAddress", cost_key} |->
                              IF k = cost_key THEN JNum(1250)
                              ELSE JStr("abc")])])])])

\* The blocks a node may return for the root identifier.
RootBlocks ==
    {NoPayload}
      \cup {OtherPayload(k) : k \in PayloadKinds \ {"TaggedData"}}
      \cup {TaggedData(InvalidUtf8), TaggedData(AsBytes(NotJson)),
            TaggedData(ProducerBody("cost")),
            TaggedData(ProducerBody("smrCost"))}
      \cup {TaggedData(TaggedBody("tag one", p)) : p \in SamplePayloads}
      \cup {TaggedData(EnvelopeBody("tag one", p)) : p \in SamplePayloads}
      \cup {TaggedData(BareBody(p)) : p \in SamplePayloads}

\* The identifiers a user may supply.
Ids ==
    { IdText(p, d, h, FALSE) :
        p \in BOOLEAN, d \in (BlockIdLen - 3)..BlockIdLen, h \in BOOLEAN }

EnvNames ==
    {"NODE_URL", "EXPLORER_URL", "START_TRANSPORTATION_CID",
     "DELIVER_TRANSPORTATION_CID"}

\* The environment in which the variables of present are set, and
\* INITIAL_BLOCK_ID is set to id when id is Some.
Env(present, id) ==
    [v \in present \cup (IF id.some THEN {"INITIAL_BLOCK_ID"} ELSE {}) |->
        IF v = "INITIAL_BLOCK_ID" THEN id.val ELSE "value of " \o v]

ClosedStdin == [typed |-> IdText(FALSE, 0, TRUE, FALSE), eof |-> TRUE,
                readable |-> FALSE]

Stdins ==
    {ClosedStdin}
      \cup {[typed |-> i, eof |-> z, readable |-> TRUE] :
              i \in Ids, z \in BOOLEAN}

\* ------------------------------------------------------------- state
VARIABLES
    pc,                          \* the call main() is at
    env,                         \* the environment of the process
    stdin,                       \* what standard input holds
    one_minute,                  \* main.rs:311, the budget of the loop
    block_id,                    \* main.rs:294
    initial_block,               \* main.rs:298
    payment_info,                \* main.rs:303
    start_transportation_block_id, \* main.rs:307
    temperature_previous_block,  \* main.rs:313
    humidity_previous_block,     \* main.rs:314
    metrics,                     \* main.rs:315
    elapsed,                     \* start_time.elapsed(), in ticks
    ledger,                      \* the blocks the ledger accepted, in order
    calls,                       \* the calls made to the node, in order
    error,                       \* the error main() ended with, and where
    c_pc,                        \* codec run: the step it is at
    c_value,                     \* codec run: the value being written
    c_block,                     \* codec run: the block read
    c_result,                    \* codec run: what decoding its body gave
    c_payment,                   \* codec run: what extraction gave
    s_pc,                        \* sampler run: the step it is at
    s_in,                        \* sampler run: the bounds and the draw
    s_out                        \* sampler run: the number returned

main_vars ==
    <<pc, env, stdin, one_minute, block_id, initial_block, payment_info,
      start_transportation_block_id, temperature_previous_block,
      humidity_previous_block, metrics, elapsed, ledger, calls, error>>

codec_vars == <<c_pc, c_value, c_block, c_result, c_payment>>

sampler_vars == <<s_pc, s_in, s_out>>

vars == <<main_vars, codec_vars, sampler_vars>>

\* A local of main() that is not bound yet.
Unbound == [unbound |-> TRUE]

\* A local of main() whose value was moved out of it.
Moved == [moved |-> TRUE]

NoError == [at |-> "", msg |-> ""]

\* The states of the session, by the call main() is at.
State(at) ==
    CASE at \in {"block_id_input", "create_iota_client"} -> "Init"
      [] at \in {"get_block", "extract_payment_info"} -> "AwaitingStartBlock"
      [] at = "start_transportation" -> "TransportationStarted"
      [] at \in {"temperature_metric", "humidity_metric", "check_elapsed"} ->
           "Sampling"
      [] at = "deliver_transportation" -> "Delivering"
      [] at = "done" -> "Done"
      [] at = "failed" -> "Failed"
      [] OTHER -> "Off"

\* A call to the node, as recorded in calls.
NodeCall(op) ==
    [op |-> op, tag |-> "", prev |-> "", accepted |-> FALSE, ok |-> FALSE,
     id |-> 0]

\* A post, as recorded in calls: the tag and previousBlock of the record,
\* whether the ledger accepted it, and what the poster returned.
PostCall(tag, prev, post) ==
    [op |-> "post_block", tag |-> tag, prev |-> prev,
     accepted |-> Len(post.ledger) > Len(ledger), ok |-> post.result.ok,
     id |-> IF post.result.ok THEN post.result.val ELSE 0]

MainOff ==
    /\ pc = "off"
    /\ env = Env({}, None)
    /\ stdin = ClosedStdin
    /\ one_minute = 0
    /\ block_id = Unbound
    /\ initial_block = Unbound
    /\ payment_info = Unbound
    /\ start_transportation_block_id = 0
    /\ temperature_previous_block = 0
    /\ humidity_previous_block = 0
    /\ metrics = <<>>
    /\ elapsed = 0
    /\ ledger = <<>>
    /\ calls = <<>>
    /\ error = NoError

CodecOff ==
    /\ c_pc = "off"
    /\ c_value = Unbound
    /\ c_block = Unbound
    /\ c_result = Unbound
    /\ c_payment = Unbound

SamplerOff ==
    /\ s_pc = "off"
    /\ s_in = Unbound
    /\ s_out = Unbound

\* The process at the first line of main().
Init ==
    /\ pc = "block_id_input"
    /\ \E present \in SUBSET EnvNames :
         \/ /\ \E i \in Ids : env = Env(present, Some(i))
            /\ stdin = ClosedStdin
         \/ /\ env = Env(present, None)
            /\ stdin \in Stdins
    /\ one_minute \in 0..MaxBudget
    /\ block_id = Unbound
    /\ initial_block = Unbound
    /\ payment_info = Unbound
    /\ start_transportation_block_id = 0
    /\ temperature_previous_block = 0
    /\ humidity_previous_block = 0
    /\ metrics = <<>>
    /\ elapsed = 0
    /\ ledger = <<>>
    /\ calls = <<>>
    /\ error = NoError
    /\ CodecOff
    /\ SamplerOff

\* unwrap() on an Err: main() panics.
Panic(msg) ==
    /\ pc' = "failed"
    /\ error' = [at |-> pc, msg |-> msg]

\* main.rs:294
MainBlockIdInput ==
    /\ pc = "block_id_input"
    /\ LET r == BlockIdInput(env, stdin)
       IN  IF r.ok
           THEN /\ block_id' = r.val
                /\ pc' = "create_iota_client"
                /\ error' = error
           ELSE /\ Panic(r.err)
                /\ block_id' = block_id
    /\ UNCHANGED <<env, stdin, one_minute, initial_block, payment_info,
                   start_transportation_block_id, temperature_previous_block,
                   humidity_previous_block, metrics, elapsed, ledger, calls>>
    /\ UNCHANGED <<codec_vars, sampler_vars>>

\* main.rs:296.  The node is contacted only when NODE_URL is set.
MainCreateIotaClient ==
    /\ pc = "create_iota_client"
    /\ \E built \in BOOLEAN :
         LET r == CreateIotaClient(env, built)
         IN  /\ calls' = IF ReadEnvVar(env, "NODE_URL").ok
                         THEN Append(calls, NodeCall("create_client"))
                         ELSE calls
             /\ IF r.ok
                THEN pc' = "get_block" /\ error' = error
                ELSE Panic(r.err)
    /\ UNCHANGED <<env, stdin, one_minute, block_id, initial_block,
                   payment_info, start_transportation_block_id,
                   temperature_previous_block, humidity_previous_block,
                   metrics, elapsed, ledger>>
    /\ UNCHANGED <<codec_vars, sampler_vars>>

\* main.rs:298-301.  The node is asked only when the identifier parses.
MainGetBlock ==
    /\ pc = "get_block"
    /\ \E fetched \in {Err("IotaClientError")} \cup {Ok(b) : b \in RootBlocks} :
         LET r == GetBlock(block_id, fetched)
         IN  /\ calls' = IF ParseBlockId(block_id).ok
                         THEN Append(calls, NodeCall("get_block"))
                         ELSE calls
             /\ IF r.ok
                THEN /\ initial_block' = r.val
                     /\ pc' = "extract_payment_info"
                     /\ error' = error
                ELSE /\ Panic(r.err)
                     /\ initial_block' = initial_block
    /\ UNCHANGED <<env, stdin, one_minute, block_id, payment_info,
                   start_transportation_block_id, temperature_previous_block,
                   humidity_previous_block, metrics, elapsed, ledger>>
    /\ UNCHANGED <<codec_vars, sampler_vars>>

\* main.rs:303-305.  The block is moved into the call; when the call fails
\* main() panics, and the block is kept here as the panic found it.
MainExtractPaymentInfo ==
    /\ pc = "extract_payment_info"
    /\ LET r == ExtractPaymentInfo(initial_block)
       IN  IF r.ok
           THEN /\ payment_info' = r.val
                /\ initial_block' = Moved
                /\ pc' = "start_transportation"
                /\ error' = error
           ELSE /\ Panic(r.err)
                /\ payment_info' = payment_info
                /\ initial_block' = initial_block
    /\ UNCHANGED <<env, stdin, one_minute, block_id,
                   start_transportation_block_id, temperature_previous_block,
                   humidity_previous_block, metrics, elapsed, ledger, calls>>
    /\ UNCHANGED <<codec_vars, sampler_vars>>

\* main.rs:307-315: the StartTransportation post, then the clock is started
\* and both chain pointers are set to the identifier returned.
MainStartTransportation ==
    /\ pc = "start_transportation"
    /\ \E accepted \in BOOLEAN :
         LET post == StartTransportation(env, ledger, block_id, accepted)
         IN  /\ ledger' = post.ledger
             /\ calls' = Append(calls,
                    PostCall("Start Transportation Tag", ShowId(block_id), post))
             /\ IF post.result.ok
                THEN /\ start_transportation_block_id' = post.result.val
                     /\ temperature_previous_block' = post.result.val
                     /\ humidity_previous_block' = post.result.val
                     /\ pc' = "temperature_metric"
                     /\ error' = error
                ELSE /\ Panic(post.result.err)
                     /\ UNCHANGED <<start_transportation_block_id,
                                    temperature_previous_block,
                                    humidity_previous_block>>
    /\ elapsed' = 0
    /\ UNCHANGED <<env, stdin, one_minute, block_id, initial_block,
                   payment_info, metrics>>
    /\ UNCHANGED <<codec_vars, sampler_vars>>

\* main.rs:319-322.  The attempt takes d ticks of the clock.
MainTemperatureMetric ==
    /\ pc = "temperature_metric"
    /\ \E accepted \in BOOLEAN, k \in 0..(RandDen - 1), d \in 1..MaxStep :
         LET prev == BlockIdToString(temperature_previous_block)
             post == TemperatureMetric(env, ledger, prev, k, accepted)
         IN  /\ ledger' = post.ledger
             /\ calls' = Append(calls,
                            PostCall("Temperature Metric Tag", prev, post))
             /\ temperature_previous_block' =
                    AdvancePointer(temperature_previous_block, post.result)
             /\ pc' = AfterMetric(post.result, "humidity_metric")
             /\ error' = IF pc' = "failed"
                         THEN [at |-> pc, msg |-> post.result.err] ELSE error
             /\ elapsed' = elapsed + d
    /\ UNCHANGED <<env, stdin, one_minute, block_id, initial_block,
                   payment_info, start_transportation_block_id,
                   humidity_previous_block, metrics>>
    /\ UNCHANGED <<codec_vars, sampler_vars>>

\* main.rs:324-327
MainHumidityMetric ==
    /\ pc = "humidity_metric"
    /\ \E accepted \in BOOLEAN, k \in 0..(RandDen - 1), d \in 1..MaxStep :
         LET prev == BlockIdToString(humidity_previous_block)
             post == HumidityMetric(env, ledger, prev, k, accepted)
         IN  /\ ledger' = post.ledger
             /\ calls' = Append(calls,
                            PostCall("Humidity Metric Tag", prev, post))
             /\ humidity_previous_block' =
                    AdvancePointer(humidity_previous_block, post.result)
             /\ pc' = AfterMetric(post.result, "check_elapsed")
             /\ error' = IF pc' = "failed"
                         THEN [at |-> pc, msg |-> post.result.err] ELSE error
             /\ elapsed' = elapsed + d
    /\ UNCHANGED <<env, stdin, one_minute, block_id, initial_block,
                   payment_info, start_transportation_block_id,
                   temperature_previous_block, metrics>>
    /\ UNCHANGED <<codec_vars, sampler_vars>>

\* main.rs:329-333
MainCheckElapsed ==
    /\ pc = "check_elapsed"
    /\ IF BudgetSpent(elapsed, one_minute)
       THEN /\ metrics' = CapturedMetrics(temperature_previous_block,
                                          humidity_previous_block)
            /\ pc' = "deliver_transportation"
       ELSE /\ metrics' = metrics
            /\ pc' = "temperature_metric"
    /\ UNCHANGED <<env, stdin, one_minute, block_id, initial_block,
                   payment_info, start_transportation_block_id,
                   temperature_previous_block, humidity_previous_block,
                   elapsed, ledger, calls, error>>
    /\ UNCHANGED <<codec_vars, sampler_vars>>

\* main.rs:336-340
MainDeliverTransportation ==
    /\ pc = "deliver_transportation"
    /\ \E accepted \in BOOLEAN :
         LET post == DeliverTransportation(env, ledger, payment_info, metrics,
                                           accepted)
         IN  /\ ledger' = post.ledger
             /\ calls' = Append(calls,
                            PostCall("Delivered Transportation Tag", "", post))
             /\ IF post.result.ok
                THEN pc' = "done" /\ error' = error
                ELSE Panic(post.result.err)
    /\ UNCHANGED <<env, stdin, one_minute, block_id, initial_block,
                   payment_info, start_transportation_block_id,
                   temperature_previous_block, humidity_previous_block,
                   metrics, elapsed>>
    /\ UNCHANGED <<codec_vars, sampler_vars>>

Next ==
    \/ MainBlockIdInput
    \/ MainCreateIotaClient
    \/ MainGetBlock
    \/ MainExtractPaymentInfo
    \/ MainStartTransportation
    \/ MainTemperatureMetric
    \/ MainHumidityMetric
    \/ MainCheckElapsed
    \/ MainDeliverTransportation

Spec == Init /\ [][Next]_vars

\* ------------------------------------------- the session: what is claimed
TemperatureTag == "Temperature Metric Tag"

HumidityTag == "Humidity Metric Tag"

Max(S) == CHOOSE m \in S : \A n \in S : m >= n

\* The posts attempted with a tag, as positions in calls.
Attempts(tag) ==
    {i \in DOMAIN calls : calls[i].op = "post_block" /\ calls[i].tag = tag}

\* Those of them that returned an identifier to main().
Successes(tag) == {i \in Attempts(tag) : calls[i].ok}

\* The identifier the StartTransportation post returned, 0 before it did.
StartPostId ==
    IF Successes("Start Transportation Tag") = {} THEN 0
    ELSE calls[Max(Successes("Start Transportation Tag"))].id

\* The identifier of the last successful post of a sub-chain, or that of
\* the StartTransportation record when none succeeded.
LastSuccessId(tag) ==
    IF Successes(tag) = {} THEN StartPostId
    ELSE calls[Max(Successes(tag))].id

\* The previousBlock of a Metric record of the ledger, read from its body.
PreviousBlockOf(id) ==
    FromJsonStr("MetricData", FromUtf8(ledger[id].data).val).val.previous_block

\* The record of the ledger an identifier text names, 0 when there is none.
RecordNamed(text) ==
    IF \E i \in 1..Len(ledger) : BlockIdToString(i) = text
    THEN CHOOSE i \in 1..Len(ledger) : BlockIdToString(i) = text
    ELSE 0

RECURSIVE ChainLength(_)
\* The number of Metric records on the path of previousBlock links from the
\* record id back to the StartTransportation record.
ChainLength(id) ==
    IF id = StartPostId \/ id \notin 1..Len(ledger) THEN 0
    ELSE 1 + ChainLength(RecordNamed(PreviousBlockOf(id)))

\* The loop of main() has ended.
LoopExited ==
    \/ pc \in {"deliver_transportation", "done"}
    \/ pc = "failed" /\ error.at = "deliver_transportation"

\* C1: after the loop, each chain pointer is the identifier of the last
\* successful post of its sub-chain (that of the StartTransportation record
\* when none succeeded), and the records linked from it back to the
\* StartTransportation record are as many as the successful posts.
C1_ChainTolerance ==
    LoopExited =>
      /\ temperature_previous_block = LastSuccessId(TemperatureTag)
      /\ humidity_previous_block = LastSuccessId(HumidityTag)
      /\ ChainLength(temperature_previous_block)
           = Cardinality(Successes(TemperatureTag))
      /\ ChainLength(humidity_previous_block)
           = Cardinality(Successes(HumidityTag))

\* Two temperature posts were attempted, the first succeeded and the second
\* failed, and the loop has ended.
C1_Witness ==
    /\ LoopExited
    /\ Cardinality(Attempts(TemperatureTag)) = 2
    /\ Cardinality(Successes(TemperatureTag)) = 1
    /\ ~calls[Max(Attempts(TemperatureTag))].ok
    /\ temperature_previous_block # StartPostId

\* C2: a metric post that fails leaves the pointer of its sub-chain as it
\* was and the session in Sampling, at the next step of the loop.
C2_FailedPostNonFatal ==
    [][ (/\ pc \in {"temperature_metric", "humidity_metric"}
         /\ Len(calls') = Len(calls) + 1
         /\ ~calls'[Len(calls')].ok)
        => /\ pc = "temperature_metric" =>
                /\ temperature_previous_block' = temperature_previous_block
                /\ pc' = "humidity_metric"
           /\ pc = "humidity_metric" =>
                /\ humidity_previous_block' = humidity_previous_block
                /\ pc' = "check_elapsed"
           /\ State(pc') = "Sampling" ]_vars

\* The second temperature post has just failed, after the first succeeded:
\* the pointer is at the first and the humidity post is next.
C2_Witness ==
    /\ pc = "humidity_metric"
    /\ Cardinality(Attempts(TemperatureTag)) = 2
    /\ ~calls[Len(calls)].ok
    /\ calls[Len(calls)].tag = TemperatureTag
    /\ temperature_previous_block = LastSuccessId(TemperatureTag)
    /\ temperature_previous_block # StartPostId

\* C3 as claimed: with a budget of 0 no metric post is attempted and the
\* metrics captured are twice the StartTransportation identifier.
C3_ZeroBudgetNoPosts ==
    (one_minute = 0 /\ LoopExited) =>
      /\ Attempts(TemperatureTag) \cup Attempts(HumidityTag) = {}
      /\ metrics = <<BlockIdToString(StartPostId), BlockIdToString(StartPostId)>>

\* C3, amended: with a budget of 0 the loop makes one temperature and one
\* humidity attempt, and the metrics captured are the identifiers those
\* attempts returned, the StartTransportation identifier standing for an
\* attempt that failed.
C3_ZeroBudgetOneIteration ==
    (one_minute = 0 /\ LoopExited) =>
      /\ Cardinality(Attempts(TemperatureTag)) = 1
      /\ Cardinality(Attempts(HumidityTag)) = 1
      /\ metrics = <<BlockIdToString(LastSuccessId(TemperatureTag)),
                     BlockIdToString(LastSuccessId(HumidityTag))>>

\* The budget is 0, the temperature post succeeded, the humidity post failed
\* and the metrics are captured.
C3_Witness ==
    /\ one_minute = 0
    /\ pc = "deliver_transportation"
    /\ Cardinality(Successes(TemperatureTag)) = 1
    /\ Successes(HumidityTag) = {}
    /\ metrics = <<BlockIdToString(temperature_previous_block),
                   BlockIdToString(StartPostId)>>

\* C4 as claimed: Failed is entered from Init, AwaitingStartBlock or
\* Delivering only.
C4_FailedFromThreeStates ==
    pc = "failed" =>
      State(error.at) \in {"Init", "AwaitingStartBlock", "Delivering"}

\* C4, amended: Failed is entered from Init, AwaitingStartBlock,
\* TransportationStarted or Delivering, and never from Sampling.
C4_FailedNeverFromSampling ==
    pc = "failed" =>
      State(error.at) \in
        {"Init", "AwaitingStartBlock", "TransportationStarted", "Delivering"}

\* The session failed in Delivering, after a metric post of Sampling had
\* failed without ending it.
C4_Witness ==
    /\ pc = "failed"
    /\ State(error.at) = "Delivering"
    /\ \E i \in Attempts(TemperatureTag) \cup Attempts(HumidityTag) :
         ~calls[i].ok

\* The identifier the user supplied, as typed or as set in the environment.
SuppliedId ==
    IF "INITIAL_BLOCK_ID" \in DOMAIN env THEN env["INITIAL_BLOCK_ID"]
    ELSE stdin.typed

IdWasSupplied == "INITIAL_BLOCK_ID" \in DOMAIN env \/ stdin.readable

\* The identifier starts with "0x" and is 66 characters long.
WellShaped(s) == s.prefix /\ 2 + s.digits = BlockIdLen

\* C5: an identifier that does not start with "0x" or is not 66 characters
\* long makes Init fail with one of the two format errors, and no call to
\* the node is made in that run.
C5_BadIdRejectedBeforeAnyCall ==
    (pc # "block_id_input" /\ IdWasSupplied /\ ~WellShaped(SuppliedId)) =>
      /\ pc = "failed"
      /\ error.at = "block_id_input"
      /\ error.msg \in {"Anyhow: BlockId must start with 0x",
                        "Anyhow: BlockId must be 66 characters long"}
      /\ calls = <<>>

StartTag == "Start Transportation Tag"

DeliveredTag == "Delivered Transportation Tag"

\* The records of the ledger that were posted with a tag.
RecordsTagged(tag) ==
    {i \in 1..Len(ledger) : ledger[i].tag = AsBytes(Text(tag))}

\* The body of a record of the ledger, read as a value of type ty.
RecordBody(ty, id) == FromJsonStr(ty, FromUtf8(ledger[id].data).val)

\* C11: the DeliveredTransportation record of the ledger holds the payment
\* info main() extracted from the root record and a metrics list of two
\* identifiers, that of the temperature pointer and then that of the
\* humidity pointer, which are those of the last successful post of each
\* sub-chain; the payment info is bound to what extraction returned and no
\* step of TransportationStarted or Sampling changes it.
C11_DeliveredCarriesPaymentAndTips ==
    /\ [](\A i \in RecordsTagged(DeliveredTag) :
            LET r == RecordBody("DeliveredTransportationData", i)
            IN  /\ r.ok
                /\ r.val.payment_info = payment_info
                /\ Len(r.val.metrics) = 2
                /\ r.val.metrics =
                     <<BlockIdToString(temperature_previous_block),
                       BlockIdToString(humidity_previous_block)>>
                /\ r.val.metrics =
                     <<BlockIdToString(LastSuccessId(TemperatureTag)),
                       BlockIdToString(LastSuccessId(HumidityTag))>>)
    /\ [][ /\ (pc = "extract_payment_info" /\ pc' = "start_transportation")
                => payment_info' = ExtractPaymentInfo(initial_block).val
           /\ State(pc) \in {"TransportationStarted", "Sampling"}
                => payment_info' = payment_info ]_vars

\* The record was posted after both sub-chains had advanced, to different
\* identifiers, and the payment info of the root record has a cost.
C11_Witness ==
    /\ pc = "done"
    /\ RecordsTagged(DeliveredTag) # {}
    /\ temperature_previous_block # StartPostId
    /\ humidity_previous_block # StartPostId
    /\ payment_info.smr_cost = 1250
    /\ Cardinality(Attempts(TemperatureTag)) = 2

\* main() is one sequential task and every call it awaits returns: a step
\* of the loop, or the delivery after it, that can be taken is taken.
FairSpec ==
    /\ Spec
    /\ WF_vars(MainTemperatureMetric)
    /\ WF_vars(MainHumidityMetric)
    /\ WF_vars(MainCheckElapsed)
    /\ WF_vars(MainDeliverTransportation)

\* A metric attempt, failed or not, takes time and hands over to the next
\* step of the loop.
MetricStepHandsOver ==
    pc \in {"temperature_metric", "humidity_metric"} =>
      /\ pc' = (IF pc = "temperature_metric" THEN "humidity_metric"
                ELSE "check_elapsed")
      /\ elapsed' > elapsed
      /\ Len(calls') = Len(calls) + 1

\* C12: a session that is in Sampling ends, in Done or in Failed, whatever
\* posts fail; no metric attempt is waited on or repeated.
C12_SamplingEnds ==
    /\ (State(pc) = "Sampling") ~> (State(pc) \in {"Done", "Failed"})
    /\ [][MetricStepHandsOver]_vars

\* The loop has ended after two iterations in which every metric post
\* failed.
C12_Witness ==
    /\ LoopExited
    /\ Cardinality(Attempts(TemperatureTag)) = 2
    /\ Cardinality(Attempts(HumidityTag)) = 2
    /\ Successes(TemperatureTag) \cup Successes(HumidityTag) = {}

\* C14: the StartTransportation record names the root identifier main()
\* validated as its previousBlock; the identifier its post returned is
\* bound to both chain pointers when Sampling is entered, and the first
\* Metric record attempted in each sub-chain names it as its previousBlock.
C14_StartSeedsBothChains ==
    /\ \A i \in Attempts(StartTag) :
         /\ CheckBlockId(block_id).ok
         /\ calls[i].prev = ShowId(block_id)
    /\ \A i \in RecordsTagged(StartTag) :
         /\ RecordBody("StartTransportationData", i).ok
         /\ RecordBody("StartTransportationData", i).val.previous_block
              = ShowId(block_id)
    /\ (pc = "temperature_metric" /\ Attempts(TemperatureTag) = {}) =>
         /\ StartPostId # 0
         /\ start_transportation_block_id = StartPostId
         /\ temperature_previous_block = StartPostId
         /\ humidity_previous_block = StartPostId
    /\ \A tag \in {TemperatureTag, HumidityTag} :
         Attempts(tag) # {} =>
           LET first == calls[Min(Attempts(tag))]
           IN  /\ first.prev = BlockIdToString(StartPostId)
               /\ first.ok =>
                    PreviousBlockOf(first.id) = BlockIdToString(StartPostId)

\* The first temperature post failed, and the first humidity post, made
\* after it, put on the ledger a record that names the StartTransportation
\* record.
C14_Witness ==
    /\ pc = "check_elapsed"
    /\ Cardinality(Attempts(TemperatureTag)) = 1
    /\ Successes(TemperatureTag) = {}
    /\ Cardinality(Successes(HumidityTag)) = 1
    /\ PreviousBlockOf(humidity_previous_block) = BlockIdToString(StartPostId)
    /\ RecordsTagged(StartTag) = {StartPostId}

\* The tag of the other sub-chain.
OtherTag(tag) == IF tag = TemperatureTag THEN HumidityTag ELSE TemperatureTag

\* A previousBlock text names the StartTransportation record or a record of
\* the sub-chain of tag that was posted successfully before position i of
\* calls, and no record of the other sub-chain.
LinksWithin(tag, text, i) ==
    /\ \/ text = BlockIdToString(StartPostId)
       \/ \E j \in Successes(tag) :
            j < i /\ text = BlockIdToString(calls[j].id)
    /\ \A j \in Successes(OtherTag(tag)) : text # BlockIdToString(calls[j].id)

\* A temperature attempt leaves the humidity pointer as it was, and a
\* humidity attempt the temperature pointer.
OtherPointerKept ==
    /\ pc = "temperature_metric" =>
         humidity_previous_block' = humidity_previous_block
    /\ pc = "humidity_metric" =>
         temperature_previous_block' = temperature_previous_block

\* C15: an attempt of one sub-chain never changes the pointer of the
\* other, and the previousBlock of every Metric record, attempted or on the
\* ledger, names the StartTransportation record or an earlier successful
\* record of its own sub-chain, never one of the other.
C15_SubChainsIndependent ==
    /\ [][OtherPointerKept]_vars
    /\ [](\A tag \in {TemperatureTag, HumidityTag} :
            \A i \in Attempts(tag) :
              /\ LinksWithin(tag, calls[i].prev, i)
              /\ calls[i].ok =>
                   /\ ledger[calls[i].id].tag = AsBytes(Text(tag))
                   /\ LinksWithin(tag, PreviousBlockOf(calls[i].id), i))

\* Two records of each sub-chain are on the ledger, posted in turn: the
\* second of each names the first of its own.
C15_Witness ==
    /\ Cardinality(RecordsTagged(TemperatureTag)) = 2
    /\ Cardinality(RecordsTagged(HumidityTag)) = 2
    /\ PreviousBlockOf(temperature_previous_block)
         = BlockIdToString(Min(RecordsTagged(TemperatureTag)))
    /\ PreviousBlockOf(humidity_previous_block)
         = BlockIdToString(Min(RecordsTagged(HumidityTag)))

\* A call is a Metric post.
IsMetricCall(c) ==
    c.op = "post_block" /\ c.tag \in {TemperatureTag, HumidityTag}

\* The Metric posts attempted, in order.
MetricCalls == SelectSeq(calls, IsMetricCall)

\* C16: the Metric posts attempted are temperature, humidity, temperature,
\* humidity, ... in turn; the humidity attempt follows the temperature
\* attempt whether that failed or outlasted the budget; the budget is
\* tested, and the metrics captured, only after a humidity attempt; and
\* when the loop has ended the attempts of the two kinds are as many.
C16_StrictAlternation ==
    /\ \A n \in DOMAIN MetricCalls :
         MetricCalls[n].tag =
           IF n % 2 = 1 THEN TemperatureTag ELSE HumidityTag
    /\ pc = "temperature_metric" => Len(MetricCalls) % 2 = 0
    /\ pc = "humidity_metric" =>
         /\ Len(MetricCalls) % 2 = 1
         /\ metrics = <<>>
    /\ pc = "check_elapsed" =>
         /\ Len(MetricCalls) % 2 = 0
         /\ Len(MetricCalls) >= 2
         /\ calls[Len(calls)].tag = HumidityTag
    /\ metrics # <<>> => LoopExited
    /\ LoopExited =>
         /\ Cardinality(Attempts(TemperatureTag))
              = Cardinality(Attempts(HumidityTag))
         /\ Cardinality(Attempts(TemperatureTag)) >= 1
         /\ MetricCalls[Len(MetricCalls)].tag = HumidityTag

\* The second temperature post failed and the budget, which is not 0, was
\* spent before the humidity post that followed it began.
C16_Witness ==
    /\ pc = "check_elapsed"
    /\ one_minute > 0
    /\ elapsed >= one_minute + MaxStep
    /\ Len(MetricCalls) = 4
    /\ ~MetricCalls[3].ok

\* C18 as claimed: a post the ledger accepted is reported to main() as a
\* success, so the records of the ledger are as many as the posts that
\* returned an identifier, and a session that failed in
\* TransportationStarted left no StartTransportation record.
C18_AcceptedPostIsReported ==
    /\ \A i \in DOMAIN calls :
         (calls[i].op = "post_block" /\ calls[i].accepted) => calls[i].ok
    /\ Len(ledger) = Cardinality({i \in DOMAIN calls : calls[i].ok})
    /\ (pc = "failed" /\ error.at = "start_transportation") =>
         RecordsTagged(StartTag) = {}

\* The place of a call in the order of a session.
Rank(c) ==
    CASE c.op = "create_client" -> 0
      [] c.op = "get_block" -> 1
      [] c.op = "post_block" /\ c.tag = StartTag -> 2
      [] c.op = "post_block" /\ IsMetricCall(c) -> 3
      [] c.op = "post_block" /\ c.tag = DeliveredTag -> 4

\* C19: the calls to the node are made in the order client, fetch of the
\* root, StartTransportation post, Metric posts, DeliveredTransportation
\* post, each but the Metric posts at most once; a post is made only after
\* the root was fetched, a Metric post only after the one StartTransportation
\* post succeeded, the DeliveredTransportation post only after the loop has
\* ended, and no call after it.
C19_CallOrder ==
    /\ \A i, j \in DOMAIN calls :
         i < j => /\ Rank(calls[i]) <= Rank(calls[j])
                  /\ Rank(calls[i]) = Rank(calls[j]) => Rank(calls[i]) = 3
    /\ \A i \in DOMAIN calls :
         /\ Rank(calls[i]) >= 2 =>
              \E j \in 1..(i - 1) : Rank(calls[j]) = 1
         /\ Rank(calls[i]) >= 3 =>
              /\ Cardinality(Attempts(StartTag)) = 1
              /\ Cardinality(Successes(StartTag)) = 1
         /\ Rank(calls[i]) = 4 =>
              /\ i = Len(calls)
              /\ Len(metrics) = 2
              /\ MetricCalls # <<>>
              /\ pc \in {"done", "failed"}
    /\ pc = "done" => Attempts(DeliveredTag) # {}

\* A session ended in Done after two iterations of the loop.
C19_Witness ==
    /\ pc = "done"
    /\ Len(MetricCalls) = 4
    /\ Len(calls) = 8
    /\ Rank(calls[Len(calls)]) = 4

\* ------------------------------------------------- the codec, run alone
\* One record is written, read back and searched for its payment info, by
\* the functions main() uses.

RECURSIVE MinimalJson(_, _)
\* The JSON value of val with only the required keys of type ty: the keys
\* of Option fields are left out.
MinimalJson(ty, val) ==
    CASE ty \in {"String", "f64", "f32", "Vec<String>"} -> Serialize(ty, val)
      [] ty = "BlockData" ->
           IF val.variant = "BasicBlockData" THEN Serialize(ty, val)
           ELSE MinimalJson(val.variant, val.data)
      [] OTHER ->
           LET fs == {f \in Range(Fields(ty)) : f[2] # "Option<String>"}
               FieldOf(k) == CHOOSE f \in fs : CamelCase(f[1]) = k
           IN  JObj([k \in {CamelCase(f[1]) : f \in fs} |->
                       MinimalJson(FieldOf(k)[2], val[FieldOf(k)[1]])])

\* The body of the minimal object of a payload, in the read-side envelope.
MinimalBody(block_type, payload) ==
    AsBytes([json |-> TRUE,
             val |-> MinimalJson("TaggedDataPayload",
                                 [block_type |-> block_type, data |-> payload])])

\* The body, in the read-side envelope, of the object that holds every key
\* of the object of payload first and every key of that of payload second;
\* a key of both has the value it has in first.
MergedBody(block_type, first, second) ==
    LET a == JVal(Serialize("BlockData", first))
        b == JVal(Serialize("BlockData", second))
    IN  AsBytes([json |-> TRUE,
                 val |-> JObj(
                   [blockType |-> JStr(block_type),
                    data |-> JObj([k \in DOMAIN a \cup DOMAIN b |->
                                     IF k \in DOMAIN a THEN a[k] ELSE b[k]])])])

\* What a codec run starts from when the object written holds the keys of
\* two payloads.
MergedInput(tag, first, second) ==
    [shape |-> "merged", tag |-> tag, data |-> first, extra |-> second]

\* The payloads that are written as objects.
ObjectPayloads ==
    { SamplePayload(v, [wallet_address |-> "abc", smr_cost |-> 1250],
                    [info |-> "info", file_cid |-> None]) :
        v \in Range(Variants) \ {"BasicBlockData"} }

\* What a codec run starts from: a payload and the way it is written.
CodecInput(shape, tag, payload) ==
    [shape |-> shape, tag |-> tag, data |-> payload]

\* The body written for an input.
Written(in) ==
    CASE in.shape = "BlockPayload" -> EnvelopeBody(in.tag, in.data)
      [] in.shape = "TaggedDataPayload" -> TaggedBody(in.tag, in.data)
      [] in.shape = "bare" -> BareBody(in.data)
      [] in.shape = "minimal" -> MinimalBody(in.tag, in.data)
      [] in.shape = "merged" -> MergedBody(in.tag, in.data, in.extra)

\* The blocks that are read as they are found on the ledger.
FoundBlocks ==
    {NoPayload}
      \cup {OtherPayload(k) : k \in PayloadKinds \ {"TaggedData"}}
      \cup {TaggedData(InvalidUtf8), TaggedData(AsBytes(NotJson)),
            TaggedData(ProducerBody("cost")),
            TaggedData(ProducerBody("smrCost"))}

InitCodec ==
    /\ MainOff
    /\ SamplerOff
    /\ c_result = Unbound
    /\ c_payment = Unbound
    /\ \/ /\ c_pc = "encode"
          /\ c_value \in
               { CodecInput(sh, t, p) :
                   sh \in {"BlockPayload", "TaggedDataPayload", "bare", "minimal"},
                   t \in Tags, p \in SamplePayloads }
               \cup { MergedInput("tag one", pq[1], pq[2]) :
                        pq \in { xy \in ObjectPayloads \X ObjectPayloads :
                                   xy[1] # xy[2] } }
          /\ c_block = Unbound
       \/ /\ c_pc = "decode"
          /\ c_value = CodecInput("found", "", Unbound)
          /\ c_block \in FoundBlocks

\* The record is written: serde_json::to_string, as_bytes (main.rs:182-184).
CodecEncode ==
    /\ c_pc = "encode"
    /\ c_block' = TaggedData(Written(c_value))
    /\ c_pc' = "decode"
    /\ UNCHANGED <<c_value, c_result, c_payment>>
    /\ UNCHANGED <<main_vars, sampler_vars>>

\* The body of the record is decoded (main.rs:116-118), when it has one.
CodecDecode ==
    /\ c_pc = "decode"
    /\ c_result' = IF c_block.payload = "TaggedData"
                   THEN DecodeTaggedData(c_block.data)
                   ELSE Err("no body")
    /\ c_pc' = "extract"
    /\ UNCHANGED <<c_value, c_block, c_payment>>
    /\ UNCHANGED <<main_vars, sampler_vars>>

\* The payment info of the record is extracted (main.rs:99-132).
CodecExtract ==
    /\ c_pc = "extract"
    /\ c_payment' = ExtractPaymentInfo(c_block)
    /\ c_pc' = "done"
    /\ UNCHANGED <<c_value, c_block, c_result>>
    /\ UNCHANGED <<main_vars, sampler_vars>>

NextCodec == CodecEncode \/ CodecDecode \/ CodecExtract

SpecCodec == InitCodec /\ [][NextCodec]_vars

\* --------------------------------------------- the codec: what is claimed
PaymentVariants ==
    {"RawMaterialsProducerBlockData", "SupplierBlockData",
     "ManufacturerBlockData", "DistributorBlockData", "RetailerBlockData"}

NoPaymentInfo == Err("Anyhow: Block payload does not contain payment info data")

\* C6: of a record that holds a payload in the read-side envelope,
\* extraction returns the payment info the payload holds when the payload
\* is of one of the five payment-bearing variants, and fails with the
\* error of an unsupported payload for every other variant.
C6_PaymentExtraction ==
    (c_pc = "done" /\ c_value.shape \in {"TaggedDataPayload", "minimal"}) =>
      IF c_value.data.variant \in PaymentVariants
      THEN c_payment = Ok(c_value.data.data.payment_info)
      ELSE c_payment = NoPaymentInfo

\* A DeliveredTransportation record, which holds a payment info, was
\* searched and extraction failed.
C6_Witness ==
    /\ c_pc = "done"
    /\ c_value.shape = "TaggedDataPayload"
    /\ c_value.data.variant = "DeliveredTransportationData"
    /\ c_payment = NoPaymentInfo
    /\ c_result.ok
    /\ c_result.val.data.variant = "DeliveredTransportationData"

\* C7: extraction fails with the error of a missing payload exactly for
\* the blocks that have no payload, and with the error of an unexpected
\* payload kind exactly for the blocks whose payload is not tagged data;
\* their bodies are never decoded, so neither block fails with an error of
\* decoding or of an unsupported payload.
C7_PayloadChecks ==
    c_pc = "done" =>
      /\ c_payment = Err("Anyhow: Block has no payload")
           <=> c_block.payload = "None"
      /\ c_payment = Err("Anyhow: Block payload is not tagged data")
           <=> c_block.payload \notin {"None", "TaggedData"}

\* A block whose payload is a milestone was searched.
C7_Witness ==
    /\ c_pc = "done"
    /\ c_block.payload = "Milestone"
    /\ c_payment = Err("Anyhow: Block payload is not tagged data")

\* C8: the body written for Envelope{tag, data} decodes, as the read-side
\* envelope, to a payload equal to data.
C8_EnvelopeRoundTrip ==
    (c_pc \in {"extract", "done"} /\ c_value.shape = "BlockPayload") =>
      /\ c_result.ok
      /\ c_result.val.data = c_value.data

\* The variants that deserialize from a JSON value.
MatchingVariants(j) ==
    {v \in Range(Variants) : Deserialize(VariantType(v), j).ok}

\* C9: the minimal object of a payload is matched by the variant of the
\* payload and by no other, and decoding resolves it to that variant.
C9_MinimalObjectsUnambiguous ==
    (c_pc \in {"extract", "done"} /\ c_value.shape = "minimal") =>
      /\ MatchingVariants(MinimalJson("BlockData", c_value.data))
           = {c_value.data.variant}
      /\ c_result.ok
      /\ c_result.val.data.variant = c_value.data.variant

\* The minimal object of a Retailer payload, whose resource a Consumer
\* payload has too, was decoded.
C9_Witness ==
    /\ c_pc = "done"
    /\ c_value.shape = "minimal"
    /\ c_value.data.variant = "RetailerBlockData"
    /\ c_result.ok

\* C10 as claimed: the RawMaterialsProducer record whose paymentInfo holds
\* the keys walletAddress and cost is decoded, and extraction returns that
\* payment info.
C10_CostKeyExtracted ==
    (c_pc = "done" /\ c_block = TaggedData(ProducerBody("cost"))) =>
      c_payment = Ok([wallet_address |-> "abc", smr_cost |-> 1250])

\* C10, amended: the RawMaterialsProducer record whose paymentInfo holds
\* the keys walletAddress and smrCost is decoded, and extraction returns
\* that payment info.
C10_SmrCostKeyExtracted ==
    (c_pc = "done" /\ c_block = TaggedData(ProducerBody("smrCost"))) =>
      /\ c_result.ok
      /\ c_result.val.data.variant = "RawMaterialsProducerBlockData"
      /\ c_payment = Ok([wallet_address |-> "abc", smr_cost |-> 1250])

\* That record was searched and a payment info came out.
C10_Witness ==
    /\ c_pc = "done"
    /\ c_block = TaggedData(ProducerBody("smrCost"))
    /\ c_payment.ok

\* The JSON value under the key data of the body of a block.
DataJson(block) == JVal(FromUtf8(block.data).val.val)["data"]

\* C17 as claimed: every object the decoder accepts, those that hold keys
\* beyond the required ones of a variant included, is matched by one
\* variant only, so that the variant decoding resolves it to does not
\* depend on the order in which the variants are tried.
C17_NoObjectMatchesTwoVariants ==
    (/\ c_pc \in {"extract", "done"}
     /\ c_value.shape \in {"TaggedDataPayload", "minimal", "merged"}
     /\ c_result.ok) =>
        Cardinality(MatchingVariants(DataJson(c_block))) = 1

\* ----------------------------------------------- the sampler, run alone
\* The profiles main() samples with, in hundredths.
TemperatureProfile == [min |-> -500, max |-> 3000, unit |-> 1]

HumidityProfile == [min |-> 0, max |-> 10000, unit |-> 1]

\* The bounds a call may be given: min <= max, each a whole number of
\* parts of 1 / unit of a hundredth.
SamplerBounds ==
    {TemperatureProfile, HumidityProfile}
      \cup { [min |-> a, max |-> b, unit |-> u] :
               a \in -MaxBound..MaxBound, b \in -MaxBound..MaxBound,
               u \in 1..SampleUnit }

InitSampler ==
    /\ MainOff
    /\ CodecOff
    /\ s_pc = "gen_random_number"
    /\ \E b \in SamplerBounds, k \in 0..(SampleDen - 1) :
         /\ b.min <= b.max
         /\ s_in = [min |-> b.min, max |-> b.max, unit |-> b.unit, k |-> k]
    /\ s_out = Unbound

\* main.rs:200-209, one call.
SamplerGenRandomNumber ==
    /\ s_pc = "gen_random_number"
    /\ s_out' = GenRandomNumberScaled(s_in.min, s_in.max, s_in.unit, s_in.k,
                                      SampleDen)
    /\ s_pc' = "done"
    /\ s_in' = s_in
    /\ UNCHANGED <<main_vars, codec_vars>>

NextSampler == SamplerGenRandomNumber

SpecSampler == InitSampler /\ [][NextSampler]_vars

\* -------------------------------------------- the sampler: what is claimed
\* The number returned, a whole number of hundredths, lies within the
\* bounds of the call.
WithinBounds ==
    /\ s_out \in Int
    /\ s_in.min <= s_out * s_in.unit
    /\ s_out * s_in.unit <= s_in.max

\* C13 as claimed: for every min <= max the number returned is a whole
\* number of hundredths within [min, max].
C13_SampleWithinBounds == s_pc = "done" => WithinBounds

\* C13, amended: for every min <= max that are themselves whole numbers of
\* hundredths, as those of the temperature and the humidity profile are,
\* the number returned is a whole number of hundredths within [min, max].
C13_SampleWithinHundredthBounds ==
    (/\ s_pc = "done"
     /\ s_in.min % s_in.unit = 0
     /\ s_in.max % s_in.unit = 0) => WithinBounds

\* The number computed lay half-way between two hundredths below the
\* upper bound and was rounded up to it.
C13_Witness ==
    /\ s_pc = "done"
    /\ s_in.unit = 1
    /\ s_in.min < s_in.max
    /\ 2 * (s_in.min * SampleDen + (s_in.max - s_in.min) * s_in.k)
         = (2 * s_in.max - 1) * SampleDen
    /\ s_out = s_in.max

====
